---- MODULE Spec2Model ----
(***************************************************************************)
(* A model of server.js: the JSON-file stores (readJson / writeJson /      *)
(* addRecord), the SMS dispatcher (sendSms / notifyCustomerAndAdmin) and   *)
(* the express handlers built on them.                                     *)
(*                                                                         *)
(* JavaScript values are records [t, v]: t is the type tag and v the       *)
(* payload as a sequence of one-character strings (the decimal text for a  *)
(* number).  Every handler is cut at its awaits: one action is the I/O     *)
(* that completes plus the synchronous code that runs up to the next       *)
(* await.                                                                  *)
(***************************************************************************)
EXTENDS Integers, Sequences, FiniteSets, TLC

VARIABLES
  env,      \* process.env: the variables server.js reads
  files,    \* DATA_DIR: store key -> "ENOENT" marker or the stored array
  req,      \* request slot -> the handler's locals and its position
  nextId    \* number of requests received so far (source of ids / timestamps)

vars == <<env, files, req, nextId>>

-----------------------------------------------------------------------------
(* Bounds *)

\* number of requests the server receives in one behaviour
MaxReq == 3

\* number of requests whose handlers are suspended at an await at one time
MaxInFlight == 2

Slots == 1..MaxReq

-----------------------------------------------------------------------------
(* JavaScript values and strings *)

Undefined == [t |-> "undefined", v |-> <<>>]
Null == [t |-> "null", v |-> <<>>]
Str(s) == [t |-> "string", v |-> s]
Num(s) == [t |-> "number", v |-> s]

Digits == {"0", "1", "2", "3", "4", "5", "6", "7", "8", "9"}

DigitVal(c) ==
  CASE c = "0" -> 0 [] c = "1" -> 1 [] c = "2" -> 2 [] c = "3" -> 3
    [] c = "4" -> 4 [] c = "5" -> 5 [] c = "6" -> 6 [] c = "7" -> 7
    [] c = "8" -> 8 [] c = "9" -> 9

AllDigits(s) == \A i \in 1..Len(s) : s[i] \in Digits

\* string literals of server.js that the code compares or parses, spelled out
\* character by character
S_admin == <<"a", "d", "m", "i", "n">>
S_admin123 == <<"a", "d", "m", "i", "n", "1", "2", "3">>
S_plus91 == <<"+", "9", "1">>
S_ADMIN_tag == <<"[ADMIN] ">>
S_Part == <<"P", "a", "r", "t">>
S_one == <<"1">>
S_zero == <<"0">>
S_NaN == <<"N", "a", "N">>
\* the fixed pieces of the template literals: text that is only ever
\* concatenated is kept as one piece per literal fragment
S_Vehicle == <<"Vehicle: ">>
S_Issue == <<" | Issue: ">>
S_Bar == <<" | ">>
S_Qty == <<" | Qty: ">>
S_Amount == <<" | Amount: ">>
S_Total == <<" | Total: ">>
S_Hi == <<"Hi ">>
S_apptConfirmed == <<", your appointment is confirmed. Vehicle: ">>
S_dotIssue == <<". Issue: ">>
S_dot == <<".">>
S_sparesReceived == <<", your spare parts request was received. Items: ">>
S_dotTotal == <<". Total: ">>
S_undefined == <<"u", "n", "d", "e", "f", "i", "n", "e", "d">>
S_null == <<"n", "u", "l", "l">>

\* JavaScript truthiness (!x is ~Truthy(x))
Truthy(x) ==
  CASE x.t = "undefined" -> FALSE
    [] x.t = "null" -> FALSE
    [] x.t = "string" -> x.v # <<>>
    [] x.t = "number" -> \E i \in 1..Len(x.v) : x.v[i] \in Digits \ {"0"}
    [] OTHER -> TRUE

\* a || b
OrElse(a, b) == IF Truthy(a) THEN a ELSE b

\* a === b on the value kinds modelled
StrictEq(a, b) == a.t = b.t /\ a.v = b.v

\* `${x}` : the text of a value inside a template literal
ToStr(x) ==
  CASE x.t = "undefined" -> S_undefined
    [] x.t = "null" -> S_null
    [] OTHER -> x.v

RECURSIVE StripLeadingZeros(_)
StripLeadingZeros(s) ==
  IF Len(s) > 1 /\ Head(s) = "0" THEN StripLeadingZeros(Tail(s)) ELSE s

RECURSIVE StripTrailingZeros(_)
StripTrailingZeros(s) ==
  IF s # <<>> /\ s[Len(s)] = "0"
    THEN StripTrailingZeros(SubSeq(s, 1, Len(s) - 1))
    ELSE s

\* position of the first "." of s, or Len(s) + 1
DotAt(s) ==
  IF \E i \in 1..Len(s) : s[i] = "."
    THEN CHOOSE i \in 1..Len(s) : s[i] = "." /\ \A j \in 1..(i - 1) : s[j] # "."
    ELSE Len(s) + 1

\* Number(x) on undefined, null, numbers and decimal strings: the number
\* as a value whose payload is its canonical decimal text, or NaN
ToNumber(x) ==
  CASE x.t = "undefined" -> Num(S_NaN)
    [] x.t = "null" -> Num(S_zero)
    [] x.t = "number" -> x
    [] OTHER ->
      LET s == x.v
          neg == s # <<>> /\ Head(s) = "-"
          body == IF s # <<>> /\ Head(s) \in {"-", "+"} THEN Tail(s) ELSE s
          d == DotAt(body)
          int == SubSeq(body, 1, d - 1)
          frac == SubSeq(body, d + 1, Len(body))
          wellFormed == /\ AllDigits(int) /\ AllDigits(frac)
                        /\ (int # <<>> \/ frac # <<>>)
          i == StripLeadingZeros(IF int = <<>> THEN S_zero ELSE int)
          f == StripTrailingZeros(frac)
          mag == IF f = <<>> THEN i ELSE i \o <<".">> \o f
      IN  IF s = <<>> THEN Num(S_zero)
          ELSE IF ~wellFormed THEN Num(S_NaN)
          ELSE IF neg /\ mag # S_zero THEN Num(<<"-">> \o mag)
          ELSE Num(mag)

\* Number.isFinite(n) for the numbers modelled (no Infinity)
IsFinite(n) == n.t = "number" /\ n.v # S_NaN

\* n <= 0 for a finite number
NotPositive(n) == n.v = S_zero \/ Head(n.v) = "-"

-----------------------------------------------------------------------------
(* Store engine: readJson / writeJson / loadStore / saveStore / addRecord *)

STORE_FILES == {"appointments", "spares", "feedback", "contacts", "customerRecords"}

NoFile == [exists |-> FALSE, data |-> <<>>]

\* what loadStore(key) returns when nothing interleaves
Contents(f) == IF f.exists THEN f.data ELSE <<>>

ValueFields ==
  {"name", "phone", "address", "vehicle", "issue", "total", "message",
   "rating", "qty", "amount"}

\* JSON.stringify followed by JSON.parse on an object whose properties are
\* the values modelled: a property holding undefined is not written
JsonObject(o) ==
  [k \in {f \in DOMAIN o : ~(f \in ValueFields /\ o[f].t = "undefined")} |-> o[k]]

JsonRecord(rec) ==
  LET o == JsonObject(rec)
  IN  IF "parts" \in DOMAIN o
        THEN [o EXCEPT !.parts = [i \in 1..Len(o.parts) |-> JsonObject(o.parts[i])]]
        ELSE o

\* the array a later readJson parses from what writeJson(filePath, data) wrote
writeJson(data) ==
  [exists |-> TRUE, data |-> [i \in 1..Len(data) |-> JsonRecord(data[i])]]

\* addRecord without its records.push(record)
PushNothing(records, record) == records

\* records.push(record)
Push(records, record) == Append(records, record)

IdsOf(records) == {records[i].id : i \in 1..Len(records)}

RECURSIVE FilterInverted(_, _)
\* records.filter((record) => record.id === id)
FilterInverted(records, id) ==
  IF records = <<>> THEN <<>>
  ELSE IF Head(records).id = id
    THEN <<Head(records)>> \o FilterInverted(Tail(records), id)
    ELSE FilterInverted(Tail(records), id)

RECURSIVE Filter(_, _)
\* records.filter((record) => record.id !== id)
Filter(records, id) ==
  IF records = <<>> THEN <<>>
  ELSE IF Head(records).id # id
    THEN <<Head(records)>> \o Filter(Tail(records), id)
    ELSE Filter(Tail(records), id)

-----------------------------------------------------------------------------
(* Notification dispatcher: sendSms / notifyCustomerAndAdmin *)

NoTask == [body |-> <<>>, st |-> "none", to |-> Undefined, dest |-> <<>>]

\* getTwilioClient() !== null
HasTwilioClient == Truthy(env.TWILIO_SID) /\ Truthy(env.TWILIO_AUTH)

RECURSIVE OnlyDigits(_)
\* to.replace(/[^0-9]/g, "")
OnlyDigits(s) ==
  IF s = <<>> THEN <<>>
  ELSE IF Head(s) \in Digits THEN <<Head(s)>> \o OnlyDigits(Tail(s))
  ELSE OnlyDigits(Tail(s))

\* the number sendSms hands to the provider
NormalizePhone(to) ==
  IF to # <<>> /\ Head(to) = "+"
    THEN to
    ELSE OrElse(env.DEFAULT_COUNTRY_CODE, Str(S_plus91)).v \o OnlyDigits(to)

MinDigits == 10
MaxDigits == 15

\* /^\+\d{10,15}$/.test(to)
ValidPhone(to) ==
  /\ to # <<>> /\ Head(to) = "+"
  /\ AllDigits(Tail(to))
  /\ Len(to) - 1 >= MinDigits /\ Len(to) - 1 <= MaxDigits

\* sendSms({to, body}) up to its only await: the send task as it stands
\* when the call returns its promise
sendSms(to, body) ==
  LET task == [body |-> body, st |-> "skipped", to |-> to, dest |-> <<>>]
  IN  IF ~HasTwilioClient \/ ~Truthy(env.TWILIO_PHONE) THEN task
      ELSE IF to.t # "string" THEN [task EXCEPT !.st = "failed"]
      ELSE IF ~ValidPhone(NormalizePhone(to.v)) THEN task
      ELSE [task EXCEPT !.st = "pending", !.dest = NormalizePhone(to.v)]

\* the smsTasks notifyCustomerAndAdmin builds
SmsTasks(customerPhone, adminPhone, body) ==
  [cust |-> IF Truthy(customerPhone) THEN sendSms(customerPhone, body) ELSE NoTask,
   admin |-> IF Truthy(adminPhone)
               THEN sendSms(adminPhone, S_ADMIN_tag \o body)
               ELSE NoTask]

Recipients == {"cust", "admin"}

\* Promise.all(smsTasks) has settled: fulfilled when every task is, rejected
\* as soon as one is
AllFulfilled(tasks) == \A w \in Recipients : tasks[w].st \in {"none", "skipped", "sent"}
AnyRejected(tasks) == \E w \in Recipients : tasks[w].st = "failed"
\* Promise.allSettled(smsTasks): settled when no task is pending
PromiseAllSettledWaitsForAll(tasks) == \A w \in Recipients : tasks[w].st # "pending"

PromiseAllSettled(tasks) == AllFulfilled(tasks) \/ AnyRejected(tasks)

-----------------------------------------------------------------------------
(* POST /api/login *)

\* the login handler without its check for a missing username or password
LoginResponseNoMissingCheck(body) ==
  LET username == body.username
      password == body.password
      adminUser == OrElse(env.ADMIN_USER, Str(S_admin))
      adminPass == OrElse(env.ADMIN_PASS, Str(S_admin123))
  IN  IF ~StrictEq(username, adminUser) \/ ~StrictEq(password, adminPass)
        THEN [status |-> 401, ok |-> FALSE]
        ELSE [status |-> 200, ok |-> TRUE]

\* the response of the login handler for a parsed body
LoginResponse(body) ==
  LET username == body.username
      password == body.password
      adminUser == OrElse(env.ADMIN_USER, Str(S_admin))
      adminPass == OrElse(env.ADMIN_PASS, Str(S_admin123))
  IN  IF ~Truthy(username) \/ ~Truthy(password)
        THEN [status |-> 400, ok |-> FALSE]
      ELSE IF ~StrictEq(username, adminUser) \/ ~StrictEq(password, adminPass)
        THEN [status |-> 401, ok |-> FALSE]
      ELSE [status |-> 200, ok |-> TRUE]

-----------------------------------------------------------------------------
(* Request slots *)

NoBody == [none |-> TRUE]
NoRecord == [none |-> TRUE]
NoResp == [status |-> 0]
NoTasks == [cust |-> NoTask, admin |-> NoTask]

\* A request not yet received.  fresh, clean and wrote are history: fresh
\* says that no other request has written store `key` since this one
\* loaded it, clean that no other request held an unsaved copy of the
\* deleted record when this delete saved, wrote which stores this request
\* has saved.
IdleReq ==
  [id |-> 0, body |-> NoBody, record |-> NoRecord, tasks |-> NoTasks,
   kind |-> "none", pc |-> "idle", key |-> "none", out |-> <<>>,
   resp |-> NoResp, fresh |-> TRUE, clean |-> TRUE, wrote |-> {}]

\* respondError(res, status, message)
respondError(status, message) ==
  [status |-> status, ok |-> FALSE, message |-> message]

InFlight(q) == q.pc \notin {"idle", "done"}

\* the next request to arrive takes slot r; its id and timestamp are new
Arrives(r) ==
  /\ req[r].pc = "idle"
  /\ nextId = r - 1
  /\ Cardinality({q \in Slots : InFlight(req[q])}) < MaxInFlight

-----------------------------------------------------------------------------
(* Submission handlers: validation and record construction *)

\* !name || !phone || !address || !vehicle || !issue
InvalidAppointment(body) ==
  \/ ~Truthy(body.name) \/ ~Truthy(body.phone) \/ ~Truthy(body.address)
  \/ ~Truthy(body.vehicle) \/ ~Truthy(body.issue)

\* !name || !phone || !address || !Array.isArray(parts)
InvalidSparesNoLengthCheck(body) ==
  \/ ~Truthy(body.name) \/ ~Truthy(body.phone) \/ ~Truthy(body.address)
  \/ ~body.parts.isArray

\* !name || !phone || !address || !Array.isArray(parts) || parts.length === 0
InvalidSpares(body) ==
  \/ ~Truthy(body.name) \/ ~Truthy(body.phone) \/ ~Truthy(body.address)
  \/ ~body.parts.isArray \/ Len(body.parts.items) = 0

\* !name || !message || !Number.isFinite(ratingValue) || ratingValue <= 0
InvalidFeedback(body) ==
  LET ratingValue == ToNumber(body.rating)
  IN  \/ ~Truthy(body.name) \/ ~Truthy(body.message)
      \/ ~IsFinite(ratingValue) \/ NotPositive(ratingValue)

\* !name || !phone || !message
InvalidContact(body) ==
  ~Truthy(body.name) \/ ~Truthy(body.phone) \/ ~Truthy(body.message)

AppointmentRecord(id, now, body) ==
  [id |-> id, name |-> body.name, phone |-> body.phone,
   address |-> body.address, type |-> "Appointment",
   details |-> S_Vehicle \o ToStr(body.vehicle) \o S_Issue \o ToStr(body.issue),
   createdAt |-> now]

PartText(part) ==
  ToStr(OrElse(part.name, Str(S_Part))) \o S_Qty \o ToStr(OrElse(part.qty, Str(S_one)))
    \o S_Amount \o ToStr(OrElse(part.amount, Str(S_zero)))

RECURSIVE Join(_)
\* parts.map(...).join(" | ")
Join(texts) ==
  IF texts = <<>> THEN <<>>
  ELSE IF Len(texts) = 1 THEN Head(texts)
  ELSE Head(texts) \o S_Bar \o Join(Tail(texts))

PartsSummary(parts) == Join([i \in 1..Len(parts) |-> PartText(parts[i])])

SparesRecord(id, now, body) ==
  [id |-> id, name |-> body.name, phone |-> body.phone,
   address |-> body.address, type |-> "Spare Parts",
   details |-> PartsSummary(body.parts.items) \o S_Total
                 \o ToStr(OrElse(body.total, Str(S_zero))),
   createdAt |-> now]

FeedbackRecord(id, now, body) ==
  [id |-> id, message |-> body.message, name |-> body.name,
   rating |-> ToNumber(body.rating), createdAt |-> now]

ContactRecord(id, now, body) ==
  [id |-> id, message |-> body.message, name |-> body.name,
   phone |-> body.phone, createdAt |-> now]

\* the store a submission handler appends to first
TypeStore(kind) ==
  CASE kind = "appointment" -> "appointments"
    [] kind = "spares" -> "spares"
    [] kind = "feedback" -> "feedback"
    [] kind = "contact" -> "contacts"

\* both addRecord calls given the full record
ItemFull(q) ==
  IF q.kind = "appointment"
    THEN q.record @@ [vehicle |-> q.body.vehicle, issue |-> q.body.issue]
  ELSE IF q.kind = "spares"
    THEN q.record @@ [parts |-> q.body.parts.items, total |-> q.body.total]
  ELSE q.record

\* the record addRecord(key, ...) is called with
Item(q) ==
  IF q.key = "customerRecords" THEN q.record
  ELSE IF q.kind = "appointment"
    THEN q.record @@ [vehicle |-> q.body.vehicle, issue |-> q.body.issue]
  ELSE IF q.kind = "spares"
    THEN q.record @@ [parts |-> q.body.parts.items, total |-> q.body.total]
  ELSE q.record

\* the text handed to notifyCustomerAndAdmin
NotifyBody(q) ==
  IF q.kind = "appointment"
    THEN S_Hi \o ToStr(q.body.name) \o S_apptConfirmed \o ToStr(q.body.vehicle)
           \o S_dotIssue \o ToStr(q.body.issue) \o S_dot
    ELSE S_Hi \o ToStr(q.body.name) \o S_sparesReceived
           \o PartsSummary(q.body.parts.items) \o S_dotTotal
           \o ToStr(OrElse(q.body.total, Str(S_zero))) \o S_dot

\* a submission handler without the try / catch around the notification
SubmissionResponsePropagates(q) ==
  IF q.kind = "contact"
    THEN [status |-> 200, ok |-> TRUE]
  ELSE IF AnyRejected(q.tasks)
    THEN respondError(500, "Failed to submit.")
  ELSE [record |-> q.record, status |-> 200, ok |-> TRUE]

\* a submission handler answering with the record it gave the type store
SubmissionResponseFull(q) ==
  IF q.kind = "contact"
    THEN [status |-> 200, ok |-> TRUE]
    ELSE [record |-> ItemFull(q), status |-> 200, ok |-> TRUE]

\* res.json(...) of a submission handler
SubmissionResponse(q) ==
  IF q.kind = "contact"
    THEN [status |-> 200, ok |-> TRUE]
    ELSE [record |-> q.record, status |-> 200, ok |-> TRUE]

\* a handler has called loadStore(key)
StartLoad(q, key) ==
  [q EXCEPT !.pc = "read", !.key = key, !.out = <<>>, !.fresh = TRUE]

Respond(q, resp) ==
  [q EXCEPT !.pc = "done", !.key = "none", !.out = <<>>, !.fresh = TRUE, !.resp = resp]

\* a submission handler from its first line to its first await
Submit(r, kind, body, invalid, message, record) ==
  /\ Arrives(r)
  /\ nextId' = r
  /\ req' = [req EXCEPT ![r] =
       IF invalid
         THEN Respond([@ EXCEPT !.kind = kind, !.body = body],
                      respondError(400, message))
         ELSE StartLoad([@ EXCEPT !.kind = kind, !.body = body, !.record = record],
                        TypeStore(kind))]
  /\ UNCHANGED <<env, files>>

PostAppointment(r, body) ==
  Submit(r, "appointment", body, InvalidAppointment(body),
         "All appointment fields are required.", AppointmentRecord(r, r, body))

PostSpares(r, body) ==
  Submit(r, "spares", body, InvalidSpares(body),
         "Customer details and at least one part are required.",
         SparesRecord(r, r, body))

PostFeedback(r, body) ==
  Submit(r, "feedback", body, InvalidFeedback(body),
         "Name, message, and rating are required.", FeedbackRecord(r, r, body))

PostContact(r, body) ==
  Submit(r, "contact", body, InvalidContact(body),
         "All contact fields are required.", ContactRecord(r, r, body))

-----------------------------------------------------------------------------
(* Query / admin handlers *)

GetFeedback(r) ==
  /\ Arrives(r)
  /\ nextId' = r
  /\ req' = [req EXCEPT ![r] = StartLoad([@ EXCEPT !.kind = "listFeedback"], "feedback")]
  /\ UNCHANGED <<env, files>>

GetCustomerRecords(r) ==
  /\ Arrives(r)
  /\ nextId' = r
  /\ req' = [req EXCEPT ![r] =
       StartLoad([@ EXCEPT !.kind = "listCustomerRecords"], "customerRecords")]
  /\ UNCHANGED <<env, files>>

DeleteCustomerRecord(r, id) ==
  /\ Arrives(r)
  /\ nextId' = r
  /\ req' = [req EXCEPT ![r] =
       StartLoad([@ EXCEPT !.kind = "delete", !.id = id], "customerRecords")]
  /\ UNCHANGED <<env, files>>

PostLogin(r, body) ==
  /\ Arrives(r)
  /\ nextId' = r
  /\ req' = [req EXCEPT ![r] =
       Respond([@ EXCEPT !.kind = "login", !.body = body], LoginResponse(body))]
  /\ UNCHANGED <<env, files>>

-----------------------------------------------------------------------------
(* The steps between awaits *)

\* the delete handler saving the array it loaded instead of the filtered one
AfterLoadSavesUnfiltered(q, records) ==
  IF q.kind \in {"listFeedback", "listCustomerRecords"}
    THEN Respond(q, [records |-> records, status |-> 200, ok |-> TRUE])
  ELSE IF q.kind = "delete"
    THEN LET next == Filter(records, q.id)
         IN  IF Len(next) = Len(records)
               THEN Respond(q, respondError(404, "Record not found."))
               ELSE [q EXCEPT !.pc = "write", !.out = records, !.fresh = TRUE]
  ELSE [q EXCEPT !.pc = "write", !.out = Push(records, Item(q)), !.fresh = TRUE]

\* the handler's code from the return of loadStore to its next await
AfterLoad(q, records) ==
  IF q.kind \in {"listFeedback", "listCustomerRecords"}
    THEN Respond(q, [records |-> records, status |-> 200, ok |-> TRUE])
  ELSE IF q.kind = "delete"
    THEN LET next == Filter(records, q.id)
         IN  IF Len(next) = Len(records)
               THEN Respond(q, respondError(404, "Record not found."))
               ELSE [q EXCEPT !.pc = "write", !.out = next, !.fresh = TRUE]
  ELSE [q EXCEPT !.pc = "write", !.out = Push(records, Item(q)), !.fresh = TRUE]

\* a submission handler without its addRecord("customerRecords", record)
AfterSaveOneStore(q) ==
  LET w == [q EXCEPT !.wrote = @ \cup {q.key}]
  IN  IF q.kind \in {"appointment", "spares"}
        THEN LET tasks == SmsTasks(q.body.phone, env.ADMIN_PHONE, NotifyBody(q))
                 n == [w EXCEPT !.tasks = tasks]
             IN  IF PromiseAllSettled(tasks)
                   THEN Respond(n, SubmissionResponse(n))
                   ELSE [n EXCEPT !.pc = "notify", !.key = "none", !.out = <<>>,
                                  !.fresh = TRUE]
      ELSE IF q.kind = "delete"
        THEN Respond(w, [status |-> 200, ok |-> TRUE])
      ELSE Respond(w, SubmissionResponse(w))

\* the handler's code from the return of saveStore to its next await
AfterSave(q) ==
  LET w == [q EXCEPT !.wrote = @ \cup {q.key}]
  IN  IF q.kind \in {"appointment", "spares"} /\ q.key # "customerRecords"
        THEN StartLoad(w, "customerRecords")
      ELSE IF q.kind \in {"appointment", "spares"}
        THEN LET tasks == SmsTasks(q.body.phone, env.ADMIN_PHONE, NotifyBody(q))
                 n == [w EXCEPT !.tasks = tasks]
             IN  IF PromiseAllSettled(tasks)
                   THEN Respond(n, SubmissionResponse(n))
                   ELSE [n EXCEPT !.pc = "notify", !.key = "none", !.out = <<>>,
                                  !.fresh = TRUE]
      ELSE IF q.kind = "delete"
        THEN Respond(w, [status |-> 200, ok |-> TRUE])
      ELSE Respond(w, SubmissionResponse(w))

\* request r has written store k: every other unsaved copy of k is stale
Written(rq, r, k) ==
  [q \in Slots |->
     IF q # r /\ rq[q].pc \in {"fallback", "write"} /\ rq[q].key = k
       THEN [rq[q] EXCEPT !.fresh = FALSE]
       ELSE rq[q]]

\* fs.readFile completes: the array parsed, or ENOENT
ReadFile(r) ==
  /\ req[r].pc = "read"
  /\ req' = [req EXCEPT ![r] =
       IF files[@.key].exists
         THEN AfterLoad(@, files[@.key].data)
         ELSE [@ EXCEPT !.pc = "fallback", !.fresh = TRUE]]
  /\ UNCHANGED <<env, files, nextId>>

\* readJson's catch: writeJson(filePath, fallback) completes, fallback returned
WriteFallback(r) ==
  /\ req[r].pc = "fallback"
  /\ files' = [files EXCEPT ![req[r].key] = writeJson(<<>>)]
  /\ req' = [Written(req, r, req[r].key) EXCEPT ![r] = AfterLoad(req[r], <<>>)]
  /\ UNCHANGED <<env, nextId>>

\* no other request holds, unsaved, a copy of the store with record id in it
NoStaleCopy(r, id) ==
  \A q \in Slots \ {r} :
    ~(req[q].pc = "write" /\ req[q].key = req[r].key /\ id \in IdsOf(req[q].out))

\* saveStore's fs.writeFile completes
WriteFile(r) ==
  /\ req[r].pc = "write"
  /\ files' = [files EXCEPT ![req[r].key] = writeJson(req[r].out)]
  /\ req' = [Written(req, r, req[r].key) EXCEPT ![r] =
       AfterSave([req[r] EXCEPT !.clean = NoStaleCopy(r, req[r].id)])]
  /\ UNCHANGED <<env, nextId>>

\* client.messages.create settles for one recipient; if that settles
\* Promise.all, notifyCustomerAndAdmin returns or throws and the handler,
\* having logged what it caught, responds
SmsSettles(r, who, outcome) ==
  /\ req[r].tasks[who].st = "pending"
  /\ LET q == [req[r] EXCEPT !.tasks[who].st = outcome]
     IN  req' = [req EXCEPT ![r] =
           IF q.pc = "notify" /\ PromiseAllSettled(q.tasks)
             THEN Respond(q, SubmissionResponse(q))
             ELSE q]
  /\ UNCHANGED <<env, files, nextId>>

-----------------------------------------------------------------------------
(* Inputs *)

T_name == Str(<<"N">>)
T_address == Str(<<"A">>)
T_vehicle == Str(<<"V">>)
T_issue == Str(<<"I">>)
T_message == Str(<<"M">>)
P_local == Str(<<"9", "8", "7", "6", "5", "4", "3", "2", "1", "0">>)
P_intl == Str(<<"+", "1", "4", "1", "5", "5", "5", "5", "2", "6", "7", "1">>)
P_short == Str(<<"1", "2", "3">>)
P_dashed == Str(<<"9", "8", "7", "6", "5", "-", "4", "3", "2", "1", "0">>)
P_number == Num(<<"9", "8", "7", "6", "5", "4", "3", "2", "1", "0">>)

BrakePad ==
  [name |-> Str(<<"B", "r", "a", "k", "e", " ", "P", "a", "d">>), qty |-> Num(<<"2">>),
   amount |-> Num(<<"5", "0", "0">>)]
BarePart == [name |-> Undefined, qty |-> Undefined, amount |-> Undefined]

Array(items) == [isArray |-> TRUE, items |-> items]
NotArray == [isArray |-> FALSE, items |-> <<>>]

EnvUnset ==
  [TWILIO_SID |-> Undefined, TWILIO_AUTH |-> Undefined,
   DEFAULT_COUNTRY_CODE |-> Undefined, TWILIO_PHONE |-> Undefined,
   ADMIN_USER |-> Undefined, ADMIN_PASS |-> Undefined, ADMIN_PHONE |-> Undefined]

EnvTwilio ==
  [EnvUnset EXCEPT !.TWILIO_SID = Str(<<"A", "C">>), !.TWILIO_AUTH = Str(<<"t">>),
                   !.TWILIO_PHONE = P_intl, !.ADMIN_PHONE = P_local]

AppointmentOk ==
  [name |-> T_name, phone |-> P_local, address |-> T_address,
   vehicle |-> T_vehicle, issue |-> T_issue]
SparesOk ==
  [parts |-> Array(<<BrakePad>>), name |-> T_name, phone |-> P_local,
   address |-> T_address, total |-> Num(<<"1", "0", "0", "0">>)]

InitWith(envs) ==
  /\ env \in envs
  /\ files = [k \in STORE_FILES |-> NoFile]
  /\ req = [r \in Slots |-> IdleReq]
  /\ nextId = 0

-----------------------------------------------------------------------------
(* Spec: the store engine under concurrent requests.  No SMS provider is   *)
(* configured, so every send is skipped and a handler's only awaits are    *)
(* its file reads and writes.                                              *)

AppointmentBodies == {AppointmentOk, [AppointmentOk EXCEPT !.issue = Undefined]}

Init == InitWith({EnvUnset})

Next ==
  \E r \in Slots :
    \/ \E body \in AppointmentBodies : PostAppointment(r, body)
    \/ PostSpares(r, SparesOk)
    \/ \E id \in 0..nextId : DeleteCustomerRecord(r, id)
    \/ ReadFile(r)
    \/ WriteFallback(r)
    \/ WriteFile(r)

Spec == Init /\ [][Next]_vars

-----------------------------------------------------------------------------
(* What the claims speak of *)

\* request r's saveStore write, or its ENOENT fallback write, completes in
\* this step
SaveStep(r) == req[r].pc = "write" /\ req'[r].pc # "write"
FallbackStep(r) == req[r].pc = "fallback" /\ req'[r].pc # "fallback"

\* request r is answered in this step
Answered(r) == req[r].pc # "done" /\ req'[r].pc = "done"

Accepted(q) == q.pc = "done" /\ q.resp.status = 200

Front(records) == SubSeq(records, 1, Len(records) - 1)

\* the step makes store k one entry longer, the entry being r's record
GrowsByOne(r, k) ==
  LET before == Contents(files[k])
      after == Contents(files'[k])
  IN  /\ Len(after) = Len(before) + 1
      /\ Front(after) = before
      /\ after[Len(after)].id = req[r].record.id

SameContents(k) == Contents(files'[k]) = Contents(files[k])

-----------------------------------------------------------------------------
(* C1 *)

\* C1 as stated: every valid appointment submission makes the appointments
\* store and the customer-records store each grow by exactly one entry, and
\* the two entries carry the same identifier.  Per write of the handler:
\* its fallback writes leave the store's contents as they were, each of its
\* two saves appends exactly its own record, and an accepted submission
\* has saved both stores.
C1_Original ==
  /\ [](\A r \in Slots :
          req[r].kind = "appointment" /\ Accepted(req[r])
            => req[r].wrote = {"appointments", "customerRecords"})
  /\ [][\A r \in Slots :
          req[r].kind = "appointment" =>
            /\ (SaveStep(r) => GrowsByOne(r, req[r].key))
            /\ (FallbackStep(r) => SameContents(req[r].key))]_vars

\* C1 amended: the same, for every write of the handler before which no
\* other request has written that store since the handler loaded it.
C1_Amended ==
  /\ [](\A r \in Slots :
          req[r].kind = "appointment" /\ Accepted(req[r])
            => req[r].wrote = {"appointments", "customerRecords"})
  /\ [][\A r \in Slots :
          req[r].kind = "appointment" /\ req[r].fresh =>
            /\ (SaveStep(r) => GrowsByOne(r, req[r].key))
            /\ (FallbackStep(r) => SameContents(req[r].key))]_vars

\* an accepted appointment whose two entries, with one identifier, are the
\* last of their stores
C1_Witness ==
  \E r \in Slots :
    /\ req[r].kind = "appointment" /\ Accepted(req[r])
    /\ Len(Contents(files["appointments"])) = 2
    /\ Len(Contents(files["customerRecords"])) = 2
    /\ Contents(files["appointments"])[2].id = r
    /\ Contents(files["customerRecords"])[2].id = r

-----------------------------------------------------------------------------
(* C3 *)

OtherStores == STORE_FILES \ {"customerRecords"}

\* the delete handler never touches the other four stores
DeleteFrame ==
  \A r \in Slots :
    req[r].kind = "delete" /\ req'[r] # req[r]
      => \A k \in OtherStores : files'[k] = files[k]

\* the effect of delete request r's step on the customer-records store
DeleteEffect(r) ==
  LET before == Contents(files["customerRecords"])
      after == Contents(files'["customerRecords"])
  IN  /\ SaveStep(r) =>
           /\ req[r].id \in IdsOf(before)
           /\ after = SelectSeq(before, LAMBDA rec : rec.id # req[r].id)
           /\ Len(after) = Len(before) - 1
           /\ req'[r].resp.status = 200
      /\ FallbackStep(r) => after = before
      /\ Answered(r) /\ req'[r].resp.status = 404 =>
           /\ req[r].id \notin IdsOf(after)
           /\ after = before

\* C3 as stated: a delete of a present identifier removes exactly that
\* entry and keeps the others in order; a delete of an absent identifier
\* leaves the store as it was and answers 404; the other four stores are
\* untouched.
C3_Original ==
  [][DeleteFrame /\ \A r \in Slots : req[r].kind = "delete" => DeleteEffect(r)]_vars

\* C3 amended: the same, when no other request has written the
\* customer-records store between the delete's load and its write.
C3_Amended ==
  [][DeleteFrame
     /\ \A r \in Slots : req[r].kind = "delete" /\ req[r].fresh => DeleteEffect(r)]_vars

\* a delete answered 200 that took the first of two records out of the
\* store and left the second
C3_Witness ==
  \E r \in Slots :
    /\ req[r].kind = "delete" /\ Accepted(req[r]) /\ req[r].id = 1
    /\ IdsOf(Contents(files["customerRecords"])) = {2}

-----------------------------------------------------------------------------
(* C5 *)

\* submission q passed validation and built its record
Validated(q) == q.kind \in {"appointment", "spares"} /\ q.record # NoRecord

\* C5 as stated: a Customer Record with identifier X is in the store if and
\* only if an appointment or spare-parts submission that was given X has
\* been answered 200.
C5_Original ==
  \A x \in Slots :
    x \in IdsOf(Contents(files["customerRecords"]))
      <=> (req[x].kind \in {"appointment", "spares"} /\ Accepted(req[x]))

\* C5 amended: every Customer Record in the store is the record built by an
\* appointment or spare-parts submission that passed validation, with that
\* submission's identifier and type tag (the submission need not have been
\* answered yet, and an accepted submission's record may be gone again).
C5_Amended ==
  \A i \in 1..Len(Contents(files["customerRecords"])) :
    LET rec == Contents(files["customerRecords"])[i]
    IN  /\ rec.id \in Slots
        /\ Validated(req[rec.id])
        /\ rec = JsonRecord(req[rec.id].record)
        /\ rec.type = (IF req[rec.id].kind = "appointment"
                         THEN "Appointment" ELSE "Spare Parts")

\* both kinds of submission accepted, both Customer Records in the store,
\* beside a rejected submission that left none
C5_Witness ==
  \E a, b, c \in Slots :
    /\ req[a].kind = "appointment" /\ Accepted(req[a])
    /\ req[b].kind = "spares" /\ Accepted(req[b])
    /\ req[c].kind = "appointment" /\ req[c].pc = "done" /\ req[c].resp.status = 400
    /\ {a, b} = IdsOf(Contents(files["customerRecords"]))

-----------------------------------------------------------------------------
(* C9 *)

\* C9, the rule behind it: a save replaces the store by what the saver
\* loaded plus the saver's record, whatever the store held by then, so
\* after it the store holds the saver's record and nothing the saver did
\* not load.
C9_LastSaveWins ==
  [][\A r \in Slots :
       SaveStep(r) /\ req[r].kind \in {"appointment", "spares"} =>
         LET k == req[r].key
         IN  IdsOf(Contents(files'[k])) = IdsOf(Front(req[r].out)) \cup {req[r].record.id}]_vars

\* C9: two addRecord calls on the appointments store have both returned,
\* and the store holds the record of the one that saved last and not the
\* record of the other
C9_Witness ==
  \E a, b \in Slots :
    /\ a # b
    /\ req[a].kind = "appointment" /\ "appointments" \in req[a].wrote
    /\ req[b].kind = "appointment" /\ "appointments" \in req[b].wrote
    /\ IdsOf(Contents(files["appointments"])) = {b}

-----------------------------------------------------------------------------
(* C10 *)

\* C10 as stated: once a delete of X has been answered 200, no record with
\* identifier X is in the customer-records store, whatever the
\* interleaving.
C10_Original ==
  \A r \in Slots :
    req[r].kind = "delete" /\ Accepted(req[r])
      => req[r].id \notin IdsOf(Contents(files["customerRecords"]))

\* C10 amended: the same, provided that when the delete saved no other
\* request held a copy of the store, loaded earlier and still to be saved,
\* with X in it.
C10_Amended ==
  \A r \in Slots :
    req[r].kind = "delete" /\ Accepted(req[r]) /\ req[r].clean
      => req[r].id \notin IdsOf(Contents(files["customerRecords"]))

\* a delete of X answered 200 while another submission was in flight, and
\* that submission's record saved after it
C10_Witness ==
  \E r, q \in Slots :
    /\ req[r].kind = "delete" /\ Accepted(req[r]) /\ req[r].clean
    /\ q > r /\ Accepted(req[q])
    /\ IdsOf(Contents(files["customerRecords"])) = {q}

-----------------------------------------------------------------------------
(* SpecForms: every form handler on every combination of field values.    *)
(* The first request is a well-formed submission or a listing, the second *)
(* request, taken once the first is answered, draws its body from all     *)
(* combinations.                                                          *)

FieldValues == {Undefined, Null, Str(<<>>), Str(<<"x">>)}
PartsValues == {NotArray, Array(<<>>), Array(<<BrakePad>>), Array(<<BarePart, BrakePad>>)}
RatingValues ==
  {Undefined, Null, Str(<<>>), Str(<<"a", "b", "c">>), Num(<<"0">>),
   Num(<<"-", "1">>), Str(<<"4", ".", "5">>), Str(<<"0", "5", ".", "0">>),
   Num(<<"5">>)}

AllAppointmentBodies ==
  [name : FieldValues, phone : FieldValues, address : FieldValues,
   vehicle : FieldValues, issue : FieldValues]
AllSparesBodies ==
  [parts : PartsValues, name : FieldValues, phone : FieldValues,
   address : FieldValues, total : {Undefined, Num(<<"1", "0", "0", "0">>)}]
AllFeedbackBodies == [message : FieldValues, name : FieldValues, rating : RatingValues]
AllContactBodies == [message : FieldValues, name : FieldValues, phone : FieldValues]

FeedbackOk == [message |-> T_message, name |-> T_name, rating |-> Str(<<"4", ".", "5">>)]
ContactOk == [message |-> T_message, name |-> T_name, phone |-> P_local]

Quiet == \A q \in Slots : ~InFlight(req[q])

NextForms ==
  \/ PostAppointment(1, AppointmentOk)
  \/ PostSpares(1, SparesOk)
  \/ PostFeedback(1, FeedbackOk)
  \/ PostContact(1, ContactOk)
  \/ GetFeedback(1)
  \/ GetCustomerRecords(1)
  \/ Quiet /\ \E body \in AllAppointmentBodies : PostAppointment(2, body)
  \/ Quiet /\ \E body \in AllSparesBodies : PostSpares(2, body)
  \/ Quiet /\ \E body \in AllFeedbackBodies : PostFeedback(2, body)
  \/ Quiet /\ \E body \in AllContactBodies : PostContact(2, body)
  \/ \E r \in {1, 2} : ReadFile(r)
  \/ \E r \in {1, 2} : WriteFallback(r)
  \/ \E r \in {1, 2} : WriteFile(r)

SpecForms == Init /\ [][NextForms]_vars

-----------------------------------------------------------------------------
(* C2 *)

Forms == {"appointment", "spares", "feedback", "contact"}

\* a required field is absent, null or empty
Missing(x) == x.t \in {"undefined", "null"} \/ (x.t = "string" /\ x.v = <<>>)

MissingRequired(kind, body) ==
  CASE kind = "appointment" ->
         \E f \in {"name", "phone", "address", "vehicle", "issue"} : Missing(body[f])
    [] kind = "spares" ->
         \/ \E f \in {"name", "phone", "address"} : Missing(body[f])
         \/ body.parts.items = <<>>
    [] kind = "feedback" -> \E f \in {"name", "message", "rating"} : Missing(body[f])
    [] kind = "contact" -> \E f \in {"name", "phone", "message"} : Missing(body[f])

\* C2: a submission that lacks a required field is answered 400 in the step
\* that receives it, that step leaves all five stores as they were, and the
\* request never saves a store.
C2_Rejected ==
  /\ [](\A r \in Slots :
          req[r].kind \in Forms /\ MissingRequired(req[r].kind, req[r].body)
            => req[r].pc = "done" /\ req[r].resp.status = 400 /\ req[r].wrote = {})
  /\ [][\A r \in Slots :
          /\ req[r].pc = "idle" /\ req'[r].pc # "idle"
          /\ req'[r].kind \in Forms
          /\ MissingRequired(req'[r].kind, req'[r].body)
          => /\ files' = files
             /\ req'[r].resp = [status |-> 400, ok |-> FALSE,
                                message |-> req'[r].resp.message]]_vars

\* a spare-parts request with no parts, rejected while the stores hold an
\* earlier submission
C2_Witness ==
  /\ req[2].kind = "spares" /\ req[2].pc = "done" /\ req[2].resp.status = 400
  /\ req[2].body.parts = Array(<<>>) /\ Truthy(req[2].body.name)
  /\ Truthy(req[2].body.phone) /\ Truthy(req[2].body.address)
  /\ Len(Contents(files["spares"])) = 1
  /\ Len(Contents(files["customerRecords"])) = 1

-----------------------------------------------------------------------------
(* SpecSms: one appointment or spare-parts submission under every SMS     *)
(* configuration, with every outcome of the provider.                     *)

SmsEnvs ==
  {EnvUnset,
   EnvTwilio,
   [EnvTwilio EXCEPT !.ADMIN_PHONE = Undefined],
   [EnvTwilio EXCEPT !.ADMIN_PHONE = P_short],
   [EnvTwilio EXCEPT !.TWILIO_PHONE = Undefined],
   [EnvTwilio EXCEPT !.TWILIO_AUTH = Str(<<>>)],
   [EnvTwilio EXCEPT !.DEFAULT_COUNTRY_CODE = Str(<<"+", "1">>)]}

Phones == {P_local, P_intl, P_short, P_dashed, P_number}

SmsAppointmentBodies == {[AppointmentOk EXCEPT !.phone = p] : p \in Phones}
SmsSparesBodies ==
  {[SparesOk EXCEPT !.phone = p, !.parts = Array(items), !.total = t] :
     p \in Phones, items \in {<<BrakePad>>, <<BarePart, BrakePad>>},
     t \in {Undefined, Num(<<"1", "0", "0", "0">>)}}

InitSms == InitWith(SmsEnvs)

NextSms ==
  \/ \E body \in SmsAppointmentBodies : PostAppointment(1, body)
  \/ \E body \in SmsSparesBodies : PostSpares(1, body)
  \/ ReadFile(1)
  \/ WriteFallback(1)
  \/ WriteFile(1)
  \/ \E who \in Recipients, outcome \in {"sent", "failed"} : SmsSettles(1, who, outcome)

SpecSms == InitSms /\ [][NextSms]_vars

Submissions == {"appointment", "spares"}

Issued(q) == {w \in Recipients : q.tasks[w].st # "none"}

-----------------------------------------------------------------------------
(* C6 *)

\* C6: a valid appointment or spare-parts submission has saved both of its
\* stores before any send is attempted, it is answered 200 {ok: true,
\* record} whatever became of the sends, and no step of a send or of the
\* notification's return changes a store or a response already given.
C6_BestEffort ==
  /\ [](\A r \in Slots :
          req[r].kind \in Submissions /\ Validated(req[r]) =>
            /\ Issued(req[r]) # {} =>
                 /\ req[r].wrote = {TypeStore(req[r].kind), "customerRecords"}
                 /\ req[r].record.id \in IdsOf(Contents(files[TypeStore(req[r].kind)]))
                 /\ req[r].record.id \in IdsOf(Contents(files["customerRecords"]))
            /\ req[r].pc = "done" =>
                 req[r].resp = [record |-> req[r].record, status |-> 200, ok |-> TRUE])
  /\ [][\A r \in Slots :
          req[r].pc \in {"notify", "done"} /\ req'[r] # req[r] =>
            /\ files' = files
            /\ req[r].pc = "done" => req'[r].resp = req[r].resp]_vars

\* answered 200 after the provider rejected the customer's message and sent
\* the admin's
C6_Witness ==
  \E r \in Slots :
    /\ req[r].kind \in Submissions /\ Accepted(req[r])
    /\ req[r].tasks.cust.st = "failed"
    /\ req[r].tasks.admin.st = "sent"

-----------------------------------------------------------------------------
(* C7 *)

\* C7 as stated: the record in the 200 response carries the submitted
\* vehicle and issue (parts and total): it is the full record written to
\* the type-specific store.
C7_Original ==
  \A r \in Slots :
    req[r].kind \in Submissions /\ Accepted(req[r]) =>
      LET stored == Contents(files[TypeStore(req[r].kind)])
      IN  /\ JsonRecord(req[r].resp.record) = stored[Len(stored)]
          /\ IF req[r].kind = "appointment"
               THEN {"vehicle", "issue"} \subseteq DOMAIN req[r].resp.record
               ELSE {"parts", "total"} \subseteq DOMAIN req[r].resp.record

ProjectionFields == {"id", "type", "name", "phone", "address", "details", "createdAt"}

\* C7 amended: the record in the 200 response is the Customer Record
\* projection (id, type, name, phone, address, details, createdAt), the
\* entry written to the customer-records store; the record written to the
\* type-specific store is that projection plus vehicle and issue (parts
\* and total), which the response carries only as text inside details.
C7_Amended ==
  \A r \in Slots :
    req[r].kind \in Submissions /\ Accepted(req[r]) =>
      LET stored == Contents(files[TypeStore(req[r].kind)])
          full == stored[Len(stored)]
          shared == Contents(files["customerRecords"])
          rec == req[r].resp.record
          body == req[r].body
      IN  /\ DOMAIN rec = ProjectionFields
          /\ JsonRecord(rec) = shared[Len(shared)]
          /\ \A f \in ProjectionFields : full[f] = rec[f]
          /\ rec.name = body.name /\ rec.phone = body.phone
          /\ rec.address = body.address
          /\ IF req[r].kind = "appointment"
               THEN /\ full.vehicle = body.vehicle /\ full.issue = body.issue
                    /\ rec.details = <<"Vehicle: ">> \o ToStr(body.vehicle)
                                       \o <<" | Issue: ">> \o ToStr(body.issue)
               ELSE /\ full.parts = [i \in 1..Len(body.parts.items) |->
                                       JsonObject(body.parts.items[i])]
                    /\ ("total" \in DOMAIN full <=> body.total # Undefined)
                    /\ ("total" \in DOMAIN full => full.total = body.total)

\* an accepted appointment and its response
C7_Witness ==
  \E r \in Slots :
    /\ req[r].kind = "appointment" /\ Accepted(req[r])
    /\ req[r].resp.record.id = r
    /\ Len(Contents(files["appointments"])) = 1

-----------------------------------------------------------------------------
(* C8 *)

\* one send task per recipient whose phone is present, the customer's with
\* the body as given and the admin's with "[ADMIN] " before it
TasksAsClaimed(q) ==
  /\ q.tasks.cust.st # "none"
  /\ q.tasks.cust.to = q.body.phone
  /\ q.tasks.cust.body = NotifyBody(q)
  /\ q.tasks.admin.st # "none" <=> ~Missing(env.ADMIN_PHONE)
  /\ q.tasks.admin.st # "none" =>
       /\ q.tasks.admin.to = env.ADMIN_PHONE
       /\ q.tasks.admin.body = <<"[ADMIN] ">> \o NotifyBody(q)

\* notifyCustomerAndAdmin has returned or thrown in request q
Notified(q) == q.kind \in Submissions /\ Validated(q) /\ q.pc = "done"

\* C8 as stated: the tasks are as claimed, and notifyCustomerAndAdmin
\* returns, normally or with an error, only when every task it issued has
\* finished.
C8_Original ==
  \A r \in Slots :
    Notified(req[r]) =>
      /\ TasksAsClaimed(req[r])
      /\ \A w \in Recipients : req[r].tasks[w].st # "pending"

\* C8 amended: the tasks are as claimed; notifyCustomerAndAdmin returns
\* normally only when every task it issued has finished, and it returns
\* with an error as soon as one task has failed, the other task possibly
\* still in flight.
C8_Amended ==
  \A r \in Slots :
    /\ req[r].pc \in {"notify", "done"} /\ req[r].kind \in Submissions
         => TasksAsClaimed(req[r])
    /\ Notified(req[r]) =>
         \/ \A w \in Recipients : req[r].tasks[w].st # "pending"
         \/ \E w \in Recipients : req[r].tasks[w].st = "failed"
    /\ req[r].pc = "notify" =>
         /\ \E w \in Recipients : req[r].tasks[w].st = "pending"
         /\ \A w \in Recipients : req[r].tasks[w].st # "failed"

\* the notification has returned with the customer's send failed and the
\* admin's still in flight
C8_Witness ==
  \E r \in Slots :
    /\ Notified(req[r])
    /\ req[r].tasks.cust.st = "failed"
    /\ req[r].tasks.admin.st = "pending"

-----------------------------------------------------------------------------
(* SpecLogin: the login handler on every combination of credentials and   *)
(* overrides.                                                             *)

S_root == <<"r", "o", "o", "t">>

LoginEnvs ==
  {[EnvUnset EXCEPT !.ADMIN_USER = u, !.ADMIN_PASS = p] :
     u \in {Undefined, Str(<<>>), Str(S_root)},
     p \in {Undefined, Str(<<>>), Str(S_root)}}

LoginValues ==
  {Undefined, Null, Str(<<>>), Num(<<"0">>), Str(S_admin), Str(S_admin123),
   Str(S_root), Str(<<"A", "d", "m", "i", "n">>)}

LoginBodies == [username : LoginValues, password : LoginValues]

InitLogin == InitWith(LoginEnvs)

NextLogin == \E body \in LoginBodies : PostLogin(1, body)

SpecLogin == InitLogin /\ [][NextLogin]_vars

-----------------------------------------------------------------------------
(* C4 *)

NoOverrides == env.ADMIN_USER = Undefined /\ env.ADMIN_PASS = Undefined

DefaultCredentials(body) ==
  body.username = Str(S_admin) /\ body.password = Str(S_admin123)

\* C4 as stated: with no overrides, admin / admin123 is answered 200
\* {ok: true} and every other combination, an empty or absent username or
\* password included, is answered 401.
C4_Original ==
  \A r \in Slots :
    NoOverrides /\ req[r].kind = "login" /\ req[r].pc = "done" =>
      IF DefaultCredentials(req[r].body)
        THEN req[r].resp = [status |-> 200, ok |-> TRUE]
        ELSE req[r].resp.status = 401

\* a value that is absent, null, empty or zero
Falsy(x) == Missing(x) \/ x = Num(<<"0">>)

\* C4 amended: with no overrides, admin / admin123 is answered 200
\* {ok: true}; a login whose username or password is absent or empty is
\* answered 400; every other combination is answered 401.
C4_Amended ==
  \A r \in Slots :
    NoOverrides /\ req[r].kind = "login" /\ req[r].pc = "done" =>
      IF DefaultCredentials(req[r].body)
        THEN req[r].resp = [status |-> 200, ok |-> TRUE]
      ELSE IF Falsy(req[r].body.username) \/ Falsy(req[r].body.password)
        THEN req[r].resp.status = 400 /\ ~req[r].resp.ok
      ELSE req[r].resp.status = 401 /\ ~req[r].resp.ok

\* the default username with an empty password, answered 400
C4_Witness ==
  \E r \in Slots :
    /\ NoOverrides /\ req[r].kind = "login" /\ req[r].pc = "done"
    /\ req[r].body.username = Str(S_admin)
    /\ req[r].body.password = Str(<<>>)
    /\ req[r].resp = [status |-> 400, ok |-> FALSE]

====
